---- MODULE Spec2Model ----
(***************************************************************************)
(* Room-booking backend of src/server.ts: the rooms and bookings tables    *)
(* and the HTTP handlers that read and write them.                          *)
(*                                                                          *)
(* Every handler of server.ts is a synchronous function over a synchronous  *)
(* database binding, so inside one server process a handler runs from its   *)
(* first statement to its response without interleaving: Spec models that   *)
(* with one atomic action per handler.  SpecRace models several server      *)
(* processes that share the database file, where each SQL statement is its  *)
(* own (autocommit) transaction and statements of different processes       *)
(* interleave.                                                              *)
(*                                                                          *)
(* Timestamps are TEXT values compared by the database's byte order, a      *)
(* total order: a timestamp is modelled by its rank 1..MaxTime in it.       *)
(***************************************************************************)
EXTENDS Integers, Sequences, FiniteSets

\* ---------------------------------------------------------------- bounds
\* rooms the seeding inserts into an empty table (server.ts inserts four)
SeedRooms == 1
\* cap on the rooms AUTOINCREMENT counter
MaxRoomId == 2
\* cap on the bookings AUTOINCREMENT counter
MaxBookings == 2
\* number of distinct timestamps
MaxTime == 3
\* server processes sharing the database file in SpecRace
MaxProcs == 2
\* cap on the users AUTOINCREMENT counter
MaxUserId == 6

\* ------------------------------------------------------------ value sets
\* SQL NULL, which is what an absent (undefined) JSON field is bound as
Null == 0
NullStatus == "<null>"

Times == 1..MaxTime
RoomIds == 1..MaxRoomId
BookingIds == 1..MaxBookings
Procs == 1..MaxProcs

\* the array literal of the PATCH handler
ValidStatuses == {"approved", "rejected", "pending"}

\* a PUT body's status: a valid one, or none (bound as NULL).  The handlers
\* and queries tell apart only NULL, 'rejected' and any other string, for
\* which 'pending' and 'approved' stand.
ReqStatuses == ValidStatuses \cup {NullStatus}
\* a PATCH body's status: also a string outside the array literal
PatchStatuses == ReqStatuses \cup {"cancelled"}
\* a body's (room_id, start_time, end_time): all given (the room existing or
\* not), or one of them absent
ReqBodies == (RoomIds \X Times \X Times)
             \cup {<<Null, 1, MaxTime>>, <<1, Null, MaxTime>>, <<1, 1, Null>>}
\* which required text field a POST body lacks
MissingText == {"none", "user_name", "title"}

VARIABLES rooms, roomSeq, bookings, last, procs, users, userSeq

vars == <<rooms, roomSeq, bookings, last, procs, users, userSeq>>

\* ------------------------------------------------------------- SQL helpers
\* mutant: <= for <, so that touching intervals conflict
SqlLtOrEqual(a, b) == a # Null /\ b # Null /\ a <= b

\* a < b in SQL: a comparison with NULL is not true
SqlLt(a, b) == a # Null /\ b # Null /\ a < b

\* mutant: the status filter dropped from the conflict query
SqlAnyStatus(st) == st # NullStatus

\* status != 'rejected' in SQL: not true of a NULL status
SqlNotRejected(st) == st # NullStatus /\ st # "rejected"

\* mutant: the update's query without AND id != ?
conflictCountNoExclude(table, room_id, exclude, start_time, end_time) ==
    Cardinality({i \in DOMAIN table :
        /\ room_id # Null
        /\ table[i].room_id = room_id
        /\ SqlNotRejected(table[i].status)
        /\ SqlLt(table[i].start_time, end_time)
        /\ SqlLt(start_time, table[i].end_time)})

\* SELECT count(*) FROM bookings WHERE room_id = ? [AND id != ?]
\*   AND status != 'rejected' AND (start_time < ? AND end_time > ?)
\* bound to (room_id, [id,] end_time, start_time); exclude = Null on create
conflictCount(table, room_id, exclude, start_time, end_time) ==
    Cardinality({i \in DOMAIN table :
        /\ room_id # Null
        /\ table[i].room_id = room_id
        /\ i # exclude
        /\ SqlNotRejected(table[i].status)
        /\ SqlLt(table[i].start_time, end_time)
        /\ SqlLt(start_time, table[i].end_time)})

\* mutant: only bookings that are not rejected block a room's deletion
roomActiveBookingCount(table, id) ==
    Cardinality({i \in DOMAIN table :
        table[i].room_id = id /\ table[i].status # "rejected"})

\* SELECT count(*) FROM bookings WHERE room_id = ?
roomBookingCount(table, id) ==
    Cardinality({i \in DOMAIN table : table[i].room_id = id})

\* mutant: the database opened with foreign_keys off
ForeignKeyOff(rms, room_id) == TRUE

\* FOREIGN KEY (room_id) REFERENCES rooms (id); the database binding turns
\* foreign-key enforcement on by default, and a violating statement throws
ForeignKeyOk(rms, room_id) == room_id \in rms

Response(op, code) == [op |-> op, code |-> code]

\* what a handler leaves behind: its response code and the table it wrote to
Outcome(code, table) == [code |-> code, table |-> table]

\* ------------------------------------------------------------------ users
User(id, username, role) == [id |-> id, username |-> username, role |-> role]

\* the four rows the seeding inserts into an empty users table
SeedUsers ==
    {User(1, "superadmin", "super_admin"), User(2, "admin", "admin"),
     User(3, "user", "user"), User(4, "viewer", "viewer")}

\* usernames and roles a POST /api/users body can carry (role is not validated)
ReqUsernames == {"superadmin", "admin", "user", "alice"}
ReqRoles == {"admin", "viewer"}
UserIds == 1..MaxUserId

Idle == [pc |-> "idle", room_id |-> Null, start_time |-> Null, end_time |-> Null]

\* ------------------------------------------------------------------- Init
Init ==
    /\ rooms = 1..SeedRooms
    /\ roomSeq = SeedRooms
    /\ bookings = <<>>
    /\ last = Response("none", 0)
    /\ procs = [p \in Procs |-> Idle]
    /\ users = SeedUsers
    /\ userSeq = Cardinality(SeedUsers)

\* ------------------------------------------------------------------ rooms
\* POST /api/rooms
PostRooms(fieldsOk) ==
    /\ IF ~fieldsOk
       THEN /\ last' = Response("POST /api/rooms", 400)
            /\ UNCHANGED <<rooms, roomSeq>>
       ELSE /\ roomSeq < MaxRoomId
            /\ rooms' = rooms \cup {roomSeq + 1}
            /\ roomSeq' = roomSeq + 1
            /\ last' = Response("POST /api/rooms", 200)
    /\ UNCHANGED <<bookings, procs, users, userSeq>>

\* DELETE /api/rooms/:id, as a function of the tables: code and rooms left
HandleDeleteRooms(table, rms, id) ==
    IF roomBookingCount(table, id) > 0
    THEN Outcome(400, rms)
    ELSE Outcome(200, rms \ {id})

DeleteRooms(id) ==
    \E out \in {HandleDeleteRooms(bookings, rooms, id)} :
    /\ rooms' = out.table
    /\ last' = Response("DELETE /api/rooms", out.code)
    /\ UNCHANGED <<roomSeq, bookings, procs, users, userSeq>>

\* --------------------------------------------------------------- bookings
\* the row an INSERT writes: status takes the column default
NewBooking(room_id, start_time, end_time) ==
    [room_id |-> room_id, start_time |-> start_time, end_time |-> end_time,
     status |-> "pending"]

\* mutant: the conflict query runs before the presence check
HandlePostBookingsConflictFirst(table, rms, room_id, missing, start_time, end_time) ==
    IF conflictCount(table, room_id, Null, start_time, end_time) > 0
    THEN Outcome(409, table)
    ELSE IF \/ room_id = Null \/ missing = "user_name" \/ start_time = Null
            \/ end_time = Null \/ missing = "title"
    THEN Outcome(400, table)
    ELSE IF ~ForeignKeyOk(rms, room_id)
    THEN Outcome(500, table)
    ELSE Outcome(200, Append(table, NewBooking(room_id, start_time, end_time)))

\* mutant: a POST that refuses an interval whose start is not before its end
HandlePostBookingsOrdered(table, rms, room_id, missing, start_time, end_time) ==
    IF \/ room_id = Null \/ missing = "user_name" \/ start_time = Null
       \/ end_time = Null \/ missing = "title"
       \/ start_time >= end_time
    THEN Outcome(400, table)
    ELSE IF conflictCount(table, room_id, Null, start_time, end_time) > 0
    THEN Outcome(409, table)
    ELSE IF ~ForeignKeyOk(rms, room_id)
    THEN Outcome(500, table)
    ELSE Outcome(200, Append(table, NewBooking(room_id, start_time, end_time)))

\* POST /api/bookings, as a function of the tables: code and bookings left
HandlePostBookings(table, rms, room_id, missing, start_time, end_time) ==
    IF \/ room_id = Null \/ missing = "user_name" \/ start_time = Null
       \/ end_time = Null \/ missing = "title"
    THEN Outcome(400, table)
    ELSE IF conflictCount(table, room_id, Null, start_time, end_time) > 0
    THEN Outcome(409, table)
    ELSE IF ~ForeignKeyOk(rms, room_id)
    THEN Outcome(500, table)
    ELSE Outcome(200, Append(table, NewBooking(room_id, start_time, end_time)))

PostBookings(room_id, missing, start_time, end_time) ==
    \E out \in {HandlePostBookings(bookings, rooms, room_id, missing,
                                  start_time, end_time)} :
    /\ Len(out.table) <= MaxBookings
    /\ bookings' = out.table
    /\ last' = Response("POST /api/bookings", out.code)
    /\ UNCHANGED <<rooms, roomSeq, procs, users, userSeq>>

\* PUT /api/bookings/:id, as a function of the tables: code and bookings left.
\* The UPDATE of an existing row throws (answered 500) when a NOT NULL column
\* is given NULL or room_id names no room; an absent user_name behaves as
\* the absent fields modelled here.
HandlePutBookings(table, rms, id, room_id, start_time, end_time, status) ==
    IF conflictCount(table, room_id, id, start_time, end_time) > 0
    THEN Outcome(409, table)
    ELSE IF id \notin DOMAIN table
    THEN Outcome(404, table)
    ELSE IF \/ room_id = Null \/ start_time = Null \/ end_time = Null
            \/ ~ForeignKeyOk(rms, room_id)
    THEN Outcome(500, table)
    ELSE Outcome(200, [table EXCEPT ![id] =
                          [room_id |-> room_id, start_time |-> start_time,
                           end_time |-> end_time, status |-> status]])

PutBookings(id, room_id, start_time, end_time, status) ==
    \E out \in {HandlePutBookings(bookings, rooms, id, room_id,
                                 start_time, end_time, status)} :
    /\ bookings' = out.table
    /\ last' = Response("PUT /api/bookings", out.code)
    /\ UNCHANGED <<rooms, roomSeq, procs, users, userSeq>>

\* mutant: the status patch runs the update's conflict check before reopening
HandlePatchStatusChecked(table, id, status) ==
    IF status \notin ValidStatuses
    THEN Outcome(400, table)
    ELSE IF id \notin DOMAIN table
    THEN Outcome(404, table)
    ELSE IF /\ status # "rejected"
            /\ conflictCount(table, table[id].room_id, id,
                             table[id].start_time, table[id].end_time) > 0
    THEN Outcome(409, table)
    ELSE Outcome(200, [table EXCEPT ![id].status = status])

\* mutant: the status patch without the validStatuses test
HandlePatchStatusUnvalidated(table, id, status) ==
    IF id \notin DOMAIN table
    THEN Outcome(404, table)
    ELSE Outcome(200, [table EXCEPT ![id].status = status])

\* mutant: a status patch that deletes the last booking when it is rejected
HandlePatchStatusPurging(table, id, status) ==
    IF status \notin ValidStatuses
    THEN Outcome(400, table)
    ELSE IF id \notin DOMAIN table
    THEN Outcome(404, table)
    ELSE IF status = "rejected" /\ id = Len(table)
    THEN Outcome(200, SubSeq(table, 1, Len(table) - 1))
    ELSE Outcome(200, [table EXCEPT ![id].status = status])

\* PATCH /api/bookings/:id/status, as a function of the table
HandlePatchStatus(table, id, status) ==
    IF status \notin ValidStatuses
    THEN Outcome(400, table)
    ELSE IF id \notin DOMAIN table
    THEN Outcome(404, table)
    ELSE Outcome(200, [table EXCEPT ![id].status = status])

PatchBookingStatus(id, status) ==
    \E out \in {HandlePatchStatus(bookings, id, status)} :
    /\ bookings' = out.table
    /\ last' = Response("PATCH /api/bookings/status", out.code)
    /\ UNCHANGED <<rooms, roomSeq, procs, users, userSeq>>

\* ------------------------------------------------------- one server process
Next ==
    \/ \E fieldsOk \in BOOLEAN : PostRooms(fieldsOk)
    \/ \E id \in RoomIds : DeleteRooms(id)
    \/ \E b \in ReqBodies, missing \in MissingText :
            PostBookings(b[1], missing, b[2], b[3])
    \/ \E id \in BookingIds, b \in ReqBodies, status \in ReqStatuses :
            PutBookings(id, b[1], b[2], b[3], status)
    \/ \E id \in BookingIds, status \in PatchStatuses : PatchBookingStatus(id, status)

Spec == Init /\ [][Next]_vars

\* ------------------------------------- several processes on one database
\* POST /api/bookings in process p, up to and including the conflict SELECT
RaceCheck(p, room_id, missing, start_time, end_time) ==
    /\ procs[p].pc = "idle"
    /\ IF \/ room_id = Null \/ missing = "user_name" \/ start_time = Null
          \/ end_time = Null \/ missing = "title"
       THEN /\ last' = Response("POST /api/bookings", 400)
            /\ UNCHANGED procs
       ELSE IF conflictCount(bookings, room_id, Null, start_time, end_time) > 0
       THEN /\ last' = Response("POST /api/bookings", 409)
            /\ UNCHANGED procs
       ELSE /\ procs' = [procs EXCEPT ![p] =
                            [pc |-> "insert", room_id |-> room_id,
                             start_time |-> start_time, end_time |-> end_time]]
            /\ UNCHANGED last
    /\ UNCHANGED <<rooms, roomSeq, bookings, users, userSeq>>

\* mutant: check and insert in one transaction, the check run again at the insert
RaceInsertRechecked(p) ==
    /\ procs[p].pc = "insert"
    /\ IF conflictCount(bookings, procs[p].room_id, Null,
                        procs[p].start_time, procs[p].end_time) > 0
       THEN /\ last' = Response("POST /api/bookings", 409)
            /\ UNCHANGED bookings
       ELSE IF ~ForeignKeyOk(rooms, procs[p].room_id)
       THEN /\ last' = Response("POST /api/bookings", 500)
            /\ UNCHANGED bookings
       ELSE /\ Len(bookings) < MaxBookings
            /\ bookings' = Append(bookings,
                    NewBooking(procs[p].room_id, procs[p].start_time, procs[p].end_time))
            /\ last' = Response("POST /api/bookings", 200)
    /\ procs' = [procs EXCEPT ![p] = Idle]
    /\ UNCHANGED <<rooms, roomSeq, users, userSeq>>

\* POST /api/bookings in process p, the INSERT and the response
RaceInsert(p) ==
    /\ procs[p].pc = "insert"
    /\ IF ~ForeignKeyOk(rooms, procs[p].room_id)
       THEN /\ last' = Response("POST /api/bookings", 500)
            /\ UNCHANGED bookings
       ELSE /\ Len(bookings) < MaxBookings
            /\ bookings' = Append(bookings,
                    NewBooking(procs[p].room_id, procs[p].start_time, procs[p].end_time))
            /\ last' = Response("POST /api/bookings", 200)
    /\ procs' = [procs EXCEPT ![p] = Idle]
    /\ UNCHANGED <<rooms, roomSeq, users, userSeq>>

NextRace ==
    \/ \E p \in Procs, b \in ReqBodies, missing \in MissingText :
            RaceCheck(p, b[1], missing, b[2], b[3])
    \/ \E p \in Procs : RaceInsert(p)

SpecRace == Init /\ [][NextRace]_vars


\* ------------------------------------------------------- the users routes
\* users tables an existing database can hold at start-up (none: empty file)
PriorUsers ==
    {{}, {User(1, "user", "user")}, {User(1, "alice", "super_admin")}}

\* seeding of the users table at start-up: four rows into an empty table,
\* otherwise a superadmin row when no row has role super_admin
SeededUsers(prior) ==
    IF prior = {} THEN SeedUsers
    ELSE IF \E u \in prior : u.role = "super_admin" THEN prior
    ELSE prior \cup {User(Cardinality(prior) + 1, "superadmin", "super_admin")}

InitUsers ==
    /\ rooms = 1..SeedRooms
    /\ roomSeq = SeedRooms
    /\ bookings = <<>>
    /\ last = Response("none", 0)
    /\ procs = [p \in Procs |-> Idle]
    /\ \E prior \in PriorUsers :
        /\ users = SeededUsers(prior)
        /\ userSeq = Cardinality(SeededUsers(prior))

\* mutant: the insert without the UNIQUE constraint on username
HandlePostUsersNoUnique(table, seq, username, fieldsOk, role) ==
    IF ~fieldsOk
    THEN Outcome(400, table)
    ELSE Outcome(200, table \cup {User(seq + 1, username, role)})

\* POST /api/users, as a function of the table: code and users left
HandlePostUsers(table, seq, username, fieldsOk, role) ==
    IF ~fieldsOk
    THEN Outcome(400, table)
    ELSE IF \E u \in table : u.username = username
    THEN Outcome(409, table)
    ELSE Outcome(200, table \cup {User(seq + 1, username, role)})

PostUsers(username, fieldsOk, role) ==
    \E out \in {HandlePostUsers(users, userSeq, username, fieldsOk, role)} :
    /\ out.code = 200 => userSeq < MaxUserId
    /\ users' = out.table
    /\ userSeq' = IF out.code = 200 THEN userSeq + 1 ELSE userSeq
    /\ last' = Response("POST /api/users", out.code)
    /\ UNCHANGED <<rooms, roomSeq, bookings, procs>>

\* mutant: the protection keyed on the role instead of the username
HandleDeleteUsersByRole(table, id) ==
    IF \E u \in table : u.id = id /\ u.role \in {"admin", "super_admin"}
    THEN Outcome(403, table)
    ELSE Outcome(200, {u \in table : u.id # id})

\* DELETE /api/users/:id, as a function of the table: code and users left
HandleDeleteUsers(table, id) ==
    IF \E u \in table : u.id = id /\ u.username \in {"admin", "superadmin"}
    THEN Outcome(403, table)
    ELSE Outcome(200, {u \in table : u.id # id})

DeleteUsers(id) ==
    \E out \in {HandleDeleteUsers(users, id)} :
    /\ users' = out.table
    /\ last' = Response("DELETE /api/users", out.code)
    /\ UNCHANGED <<rooms, roomSeq, bookings, procs, userSeq>>

NextUsers ==
    \/ \E username \in ReqUsernames, fieldsOk \in BOOLEAN, role \in ReqRoles :
            PostUsers(username, fieldsOk, role)
    \/ \E id \in UserIds : DeleteUsers(id)

SpecUsers == InitUsers /\ [][NextUsers]_vars

\* ================================================================= claims
\* The claims' own vocabulary, stated on the stored rows and independent of
\* the SQL helpers above.

\* row b overlaps the interval [s, e): b.start < e AND b.end > s
Overlaps(b, s, e) == b.start_time < e /\ b.end_time > s

\* status other than 'rejected'
Active(b) == b.status # "rejected"

\* the rows of room, other than row self, that are active and overlap [s, e)
Blockers(room, s, e, self) ==
    {i \in DOMAIN bookings : /\ i # self
                            /\ bookings[i].room_id = room
                            /\ Active(bookings[i])
                            /\ Overlaps(bookings[i], s, e)}

Requested(room, s, e, status) ==
    [room_id |-> room, start_time |-> s, end_time |-> e, status |-> status]

\* two distinct active rows of one room overlap
DoubleBooking ==
    \E i, j \in DOMAIN bookings :
        /\ i # j
        /\ bookings[i].room_id = bookings[j].room_id
        /\ Active(bookings[i]) /\ Active(bookings[j])
        /\ Overlaps(bookings[i], bookings[j].start_time, bookings[j].end_time)

FullBodies == RoomIds \X Times \X Times

\* C1: in every reachable state no two distinct bookings of one room, both
\* with status other than 'rejected', overlap.
C1_NoDoubleBooking == ~DoubleBooking

\* C2: a POST with all required fields whose interval overlaps an active
\* booking of the room is answered 409 and leaves the bookings unchanged.
C2_ConflictingPostIs409 ==
    \A b \in FullBodies :
        Blockers(b[1], b[2], b[3], Null) # {}
        => HandlePostBookings(bookings, rooms, b[1], "none", b[2], b[3])
             = Outcome(409, bookings)

\* C3: a PUT on an existing booking whose requested room and interval
\* overlap another active booking is answered 409 and leaves the bookings
\* unchanged, whatever status it asks for.
C3_ConflictingPutIs409 ==
    \A id \in DOMAIN bookings, b \in FullBodies, st \in ReqStatuses :
        Blockers(b[1], b[2], b[3], id) # {}
        => HandlePutBookings(bookings, rooms, id, b[1], b[2], b[3], st)
             = Outcome(409, bookings)

\* some active row of room, other than self, ends at s or starts at e
Touches(room, s, e, self) ==
    \E i \in DOMAIN bookings :
        /\ i # self
        /\ bookings[i].room_id = room
        /\ Active(bookings[i])
        /\ (bookings[i].end_time = s \/ bookings[i].start_time = e)

\* the outcome of an accepted create, and of an accepted update of row id
Created(room, s, e) ==
    Outcome(200, Append(bookings, Requested(room, s, e, "pending")))
Updated(id, room, s, e, st) ==
    Outcome(200, [bookings EXCEPT ![id] = Requested(room, s, e, st)])

\* C4: a POST (required fields present) or PUT (on an existing booking) whose
\* interval touches an active booking of the room at an endpoint and overlaps
\* no active booking of the room is not answered 409: the row is written.
C4_TouchingIsAccepted ==
    /\ \A b \in FullBodies :
          (Touches(b[1], b[2], b[3], Null) /\ Blockers(b[1], b[2], b[3], Null) = {})
          => HandlePostBookings(bookings, rooms, b[1], "none", b[2], b[3])
               = Created(b[1], b[2], b[3])
    /\ \A id \in DOMAIN bookings, b \in FullBodies, st \in ReqStatuses :
          (Touches(b[1], b[2], b[3], id) /\ Blockers(b[1], b[2], b[3], id) = {})
          => HandlePutBookings(bookings, rooms, id, b[1], b[2], b[3], st)
               = Updated(id, b[1], b[2], b[3], st)

\* C4 witness: a POST has just inserted a booking that starts where an
\* active booking of the same room ends.
C4_Witness ==
    /\ last = Response("POST /api/bookings", 200)
    /\ \E i \in DOMAIN bookings :
        LET new == bookings[Len(bookings)] IN
        /\ i # Len(bookings)
        /\ bookings[i].room_id = new.room_id
        /\ Active(bookings[i])
        /\ bookings[i].start_time < bookings[i].end_time
        /\ bookings[i].end_time = new.start_time
        /\ new.start_time < new.end_time

\* some rejected row of room, other than self, overlaps [s, e)
OverlapsRejected(room, s, e, self) ==
    \E i \in DOMAIN bookings :
        /\ i # self
        /\ bookings[i].room_id = room
        /\ bookings[i].status = "rejected"
        /\ Overlaps(bookings[i], s, e)

\* C5: a POST (required fields present) or PUT (on an existing booking) whose
\* interval overlaps rejected bookings of the room and no active one succeeds.
C5_RejectedNeverConflicts ==
    /\ \A b \in FullBodies :
          (/\ OverlapsRejected(b[1], b[2], b[3], Null)
           /\ Blockers(b[1], b[2], b[3], Null) = {})
          => HandlePostBookings(bookings, rooms, b[1], "none", b[2], b[3])
               = Created(b[1], b[2], b[3])
    /\ \A id \in DOMAIN bookings, b \in FullBodies, st \in ReqStatuses :
          (/\ OverlapsRejected(b[1], b[2], b[3], id)
           /\ Blockers(b[1], b[2], b[3], id) = {})
          => HandlePutBookings(bookings, rooms, id, b[1], b[2], b[3], st)
               = Updated(id, b[1], b[2], b[3], st)

\* C5 witness: a POST has just inserted a booking over the interval of a
\* rejected booking of the same room.
C5_Witness ==
    /\ last = Response("POST /api/bookings", 200)
    /\ \E i \in DOMAIN bookings :
        LET new == bookings[Len(bookings)] IN
        /\ i # Len(bookings)
        /\ bookings[i].room_id = new.room_id
        /\ bookings[i].status = "rejected"
        /\ new.start_time < new.end_time
        /\ Overlaps(bookings[i], new.start_time, new.end_time)

\* C6: a PUT on an existing active booking B whose requested room is B's and
\* whose requested interval overlaps B's stored one, and overlaps no other
\* active booking of the room, succeeds and replaces B's fields.
C6_SelfExclusion ==
    \A id \in DOMAIN bookings, b \in FullBodies, st \in ReqStatuses :
        (/\ Active(bookings[id])
         /\ bookings[id].room_id = b[1]
         /\ Overlaps(bookings[id], b[2], b[3])
         /\ Blockers(b[1], b[2], b[3], id) = {})
        => HandlePutBookings(bookings, rooms, id, b[1], b[2], b[3], st)
             = Updated(id, b[1], b[2], b[3], st)

\* C6 witness: a PUT has just succeeded and left an active booking that
\* spans the whole time range and is the only booking of its room.
C6_Witness ==
    /\ last = Response("PUT /api/bookings", 200)
    /\ \E i \in DOMAIN bookings :
        /\ Active(bookings[i])
        /\ bookings[i].start_time = 1 /\ bookings[i].end_time = MaxTime
        /\ \A j \in DOMAIN bookings : j # i => bookings[j].room_id # bookings[i].room_id

\* C7: a POST with all required fields, for a room that exists (the
\* validator's stated input contract), is answered 409 exactly when some
\* active booking of the same room overlaps it; otherwise exactly one booking
\* is added, with the requested room and interval and status 'pending', and
\* the existing bookings are unchanged.
C7_ConflictIffReference ==
    \A b \in FullBodies :
        b[1] \in rooms
        => HandlePostBookings(bookings, rooms, b[1], "none", b[2], b[3])
             = IF Blockers(b[1], b[2], b[3], Null) # {}
               THEN Outcome(409, bookings)
               ELSE Created(b[1], b[2], b[3])

C9_PatchAlwaysSucceeds ==
    \A id \in DOMAIN bookings, st \in ValidStatuses :
        HandlePatchStatus(bookings, id, st)
          = Outcome(200, [bookings EXCEPT ![id] =
                Requested(bookings[id].room_id, bookings[id].start_time,
                          bookings[id].end_time, st)])

\* C9 witness: a PATCH has just succeeded and two bookings of one room, each
\* pending or approved, overlap.
C9_Witness ==
    /\ last = Response("PATCH /api/bookings/status", 200)
    /\ \E i, j \in DOMAIN bookings :
        /\ i # j
        /\ bookings[i].room_id = bookings[j].room_id
        /\ bookings[i].status \in {"pending", "approved"}
        /\ bookings[j].status \in {"pending", "approved"}
        /\ bookings[i].start_time < bookings[i].end_time
        /\ bookings[j].start_time < bookings[j].end_time
        /\ Overlaps(bookings[i], bookings[j].start_time, bookings[j].end_time)

\* C10: a DELETE of a room that some booking references, whatever the
\* booking's status, is answered 400 and leaves the rooms as they are (the
\* handler writes no booking); the room is removed only when no booking
\* references it.
C10_DeleteBlockedWhileBooked ==
    \A id \in RoomIds :
        HandleDeleteRooms(bookings, rooms, id)
          = IF \E i \in DOMAIN bookings : bookings[i].room_id = id
            THEN Outcome(400, rooms)
            ELSE Outcome(200, rooms \ {id})

\* C10 witness: a DELETE has just been answered 400 for a room that is still
\* there and whose bookings are all rejected.
C10_Witness ==
    /\ last = Response("DELETE /api/rooms", 400)
    /\ \E r \in rooms :
        /\ \E i \in DOMAIN bookings : bookings[i].room_id = r
        /\ \A i \in DOMAIN bookings : bookings[i].status = "rejected"

\* ids a request can name: those of stored bookings and one never assigned
AnyBookingIds == 1..(MaxBookings + 1)

\* C11: a PATCH whose status is none of approved, rejected, pending is
\* answered 400 whatever the id; a PATCH with one of those statuses and an id
\* that matches no booking is answered 404; neither changes a booking.
C11_PatchRefusals ==
    \A id \in AnyBookingIds, st \in PatchStatuses :
        /\ st \notin ValidStatuses
           => HandlePatchStatus(bookings, id, st) = Outcome(400, bookings)
        /\ st \in ValidStatuses /\ id \notin DOMAIN bookings
           => HandlePatchStatus(bookings, id, st) = Outcome(404, bookings)

\* C11 witness: a PATCH has just been answered 400 while bookings are stored
\* (only the status test answers 400).
C11_Witness ==
    /\ last = Response("PATCH /api/bookings/status", 400)
    /\ bookings # <<>>

\* C12: a PUT whose id matches no booking is answered 404 and changes no
\* booking, for every request body.
C12_MissingPutIs404 ==
    \A id \in AnyBookingIds \ DOMAIN bookings, b \in ReqBodies,
       st \in ReqStatuses :
        HandlePutBookings(bookings, rooms, id, b[1], b[2], b[3], st)
          = Outcome(404, bookings)

\* the absent-field combinations of a POST body: at least one required field
\* is absent, the others take any value
AbsentBodies ==
    {b \in (RoomIds \cup {Null}) \X MissingText \X (Times \cup {Null})
           \X (Times \cup {Null}) :
        b[1] = Null \/ b[2] # "none" \/ b[3] = Null \/ b[4] = Null}

\* C13: a POST with any of room_id, user_name, start_time, end_time, title
\* absent is answered 400 and inserts nothing, also when the fields that are
\* present overlap an active booking of the room.
C13_AbsentFieldIs400 ==
    \A b \in AbsentBodies :
        HandlePostBookings(bookings, rooms, b[1], b[2], b[3], b[4])
          = Outcome(400, bookings)

\* C13 witness: a POST has just been answered 400 while an active booking
\* spanning the whole time range is stored, so a body with both times
\* present and in order overlaps it.
C13_Witness ==
    /\ last = Response("POST /api/bookings", 400)
    /\ \E i \in DOMAIN bookings :
        /\ bookings[i].status \in {"pending", "approved"}
        /\ bookings[i].start_time = 1
        /\ bookings[i].end_time = MaxTime

\* the usernames the DELETE handler protects
ProtectedNames == {"admin", "superadmin"}

\* C14: a POST /api/users with the fields present and the username of an
\* existing user is answered 409 and leaves the users unchanged; no two users
\* share a username.
C14_UsernamesUnique ==
    /\ \A u, v \in users : u.username = v.username => u = v
    /\ \A u \in users, role \in ReqRoles :
        HandlePostUsers(users, userSeq, u.username, TRUE, role)
          = Outcome(409, users)

\* C14 witness: a POST /api/users has just been answered 409.
C14_Witness ==
    /\ last = Response("POST /api/users", 409)
    /\ users # {}

\* C15: a DELETE on a user named admin or superadmin is answered 403 whatever
\* the user's role and leaves the users unchanged, and no step removes or
\* alters such a user.
C15_ProtectedUsersStay ==
    [][\A u \in users :
          u.username \in ProtectedNames
          => /\ HandleDeleteUsers(users, u.id) = Outcome(403, users)
             /\ u \in users']_vars

\* C15 witness: a DELETE has just been answered 403 while every user with a
\* protected name has role viewer, so the refused DELETE named such a user.
C15_Witness ==
    /\ last = Response("DELETE /api/users", 403)
    /\ \E u \in users : u.username \in ProtectedNames
    /\ \A u \in users : u.username \in ProtectedNames => u.role = "viewer"

\* C16: the status of every stored booking is one of pending, approved,
\* rejected.
C16_StatusInDomain ==
    \A i \in DOMAIN bookings : bookings[i].status \in ValidStatuses

\* C17: a POST with all required fields present whose start_time is not
\* before its end_time, on an existing room none of whose bookings is
\* active, is answered 200 and stores the booking as given, pending.
C17_UnorderedIntervalAccepted ==
    \A room \in rooms, s \in Times, e \in Times :
        /\ s >= e
        /\ \A i \in DOMAIN bookings :
              bookings[i].room_id = room => ~Active(bookings[i])
        => HandlePostBookings(bookings, rooms, room, "none", s, e)
             = Outcome(200, Append(bookings, Requested(room, s, e, "pending")))

\* C17 witness: a POST has just stored, as the only booking of its room, a
\* pending booking whose start_time is after its end_time.
C17_Witness ==
    /\ last = Response("POST /api/bookings", 200)
    /\ bookings # <<>>
    /\ bookings[Len(bookings)].status = "pending"
    /\ bookings[Len(bookings)].start_time > bookings[Len(bookings)].end_time
    /\ \A i \in 1..(Len(bookings) - 1) :
          bookings[i].room_id # bookings[Len(bookings)].room_id

\* a PATCH that moves one booking from rejected to pending or approved
ReopenStep ==
    /\ last' = Response("PATCH /api/bookings/status", 200)
    /\ \E id \in DOMAIN bookings :
        /\ bookings[id].status = "rejected"
        /\ bookings'[id].status \in {"pending", "approved"}
        /\ bookings' = [bookings EXCEPT ![id].status = bookings'[id].status]

\* C18: with requests served one at a time, a step that leads from a state
\* without overlapping non-rejected bookings of one room to a state with
\* such a pair is a PATCH that moves a booking from rejected to pending or
\* approved; POST, PUT and every other PATCH keep the state free of overlap.
C18_OnlyReopeningOverlaps ==
    [][~DoubleBooking /\ DoubleBooking' => ReopenStep]_vars

\* C19: the room_id of every stored booking identifies a stored room.
C19_BookingsReferenceRooms ==
    \A i \in DOMAIN bookings : bookings[i].room_id \in rooms

\* C19 witness: a POST naming a room that is not stored has just been
\* refused by the foreign key, while a room has been deleted and bookings of
\* the remaining rooms are stored.
C19_Witness ==
    /\ last = Response("POST /api/bookings", 500)
    /\ bookings # <<>>
    /\ rooms # {}
    /\ \E r \in 1..roomSeq : r \notin rooms

\* the bookings of room r
RoomBookings(table, r) == {i \in DOMAIN table : table[i].room_id = r}

\* C20: no step removes a booking or reuses an id: the ids stored before a
\* step are stored after it, and a POST that succeeds adds exactly one id,
\* which was not stored before; a room that had bookings has none after a
\* step only when the step is a successful PUT.
C20_BookingsOnlyGrow ==
    [][/\ DOMAIN bookings \subseteq DOMAIN bookings'
       /\ last' = Response("POST /api/bookings", 200)
          => \E id \in DOMAIN bookings' \ DOMAIN bookings :
                DOMAIN bookings' = DOMAIN bookings \cup {id}
       /\ \A r \in RoomIds :
            RoomBookings(bookings, r) # {} /\ RoomBookings(bookings', r) = {}
            => last' = Response("PUT /api/bookings", 200)]_vars

\* C20 witness: a room has just been deleted while bookings are stored, all
\* of them in another room, and ids up to the bound have been assigned.
C20_Witness ==
    /\ last = Response("DELETE /api/rooms", 200)
    /\ Len(bookings) = MaxBookings
    /\ \E r \in 1..roomSeq : r \notin rooms
    /\ \A i \in DOMAIN bookings : bookings[i].room_id \in rooms

====
